---- MODULE Spec2Model ----
(***************************************************************************)
(* Model of main.py, the training script of transductive-vos.pytorch.      *)
(*                                                                         *)
(* The script is started once per process of a distributed run.  The model *)
(* follows one such process (its rank and the world size are inputs) from  *)
(* the construction of the loaders to the final checkpoint, together with  *)
(* the checkpoint directory, which outlives the run.  A run can be stopped *)
(* at any point and the command started again with another --resume.       *)
(***************************************************************************)
EXTENDS Integers, Sequences, FiniteSets

\* ---------------------------------------------------------------- bounds
MaxEpochs == 3
MaxFreq == 2
MaxWorld == 2
MaxBs == 3
TrainBatches == 2

\* --iter_size keeps its default
IterSize == 1

VARIABLES
    args,         \* the parsed command line
    world,        \* dist.get_world_size()
    rank,         \* dist.get_rank()
    pc,           \* position of the process in main()
    batch_size,   \* batch_size handed to the two DataLoaders
    start_epoch,
    it,           \* next value of range(start_epoch, args.epochs)
    epoch,        \* the loop variable
    state_dict,   \* model state: the epochs trained into the weights, in order
    opt_steps,    \* optimizer state: optimizer.step() calls behind it
    last_epoch,   \* scheduler state: scheduler.step() calls behind it
    files,        \* the checkpoint files on disk: path -> saved dictionary
    log           \* what this run has done so far, in order

vars == <<args, world, rank, pc, batch_size, start_epoch, it, epoch,
          state_dict, opt_steps, last_epoch, files, log>>

\* ------------------------------------------------------------ paths, inputs
NoPath == <<"none", 0>>
MissingPath == <<"missing", 0>>
FinalName == <<"checkpoint-final.pth.tar", 0>>

CheckpointName(e) == <<"checkpoint-epoch-{}.pth.tar", e>>

Freqs == {-1} \cup (0 .. MaxFreq)

Datasets == {"davis", "other"}

ResumeChoices ==
    {NoPath, MissingPath, FinalName} \cup {CheckpointName(e) : e \in 0 .. MaxEpochs - 1}

NoEpoch == -1

\* ------------------------------------------------------------ pure helpers
\* Python's a % b for b # 0: the result takes the sign of the divisor.
PyMod(a, b) == IF b > 0 THEN a % b ELSE -((-a) % (-b))

\* variant: the share rounded up instead of down
LoaderBatchSizeCeil(bs, W) == (bs + W - 1) \div W

\* args.bs // dist.get_world_size()
LoaderBatchSize(bs, W) == bs \div W

\* optimizer.step() calls of one train(): one per i with (i + 1) % iter_size == 0
OptimizerSteps(n, iter_size) ==
    Cardinality({i \in 0 .. n - 1 : PyMod(i + 1, iter_size) = 0})

\* variant: a range that includes its stop value
RangeHasNextInclusive(i, stop) == i <= stop

\* range(start_epoch, args.epochs): is there a next value
RangeHasNext(i, stop) == i < stop

\* epoch % args.val_freq == 0
ShouldValidate(e, val_freq) == PyMod(e, val_freq) = 0

\* variant: epochs counted from one in the save test
ShouldSaveFromOne(e, save_freq, r) == PyMod(e + 1, save_freq) = 0 /\ r = 0

\* epoch % args.save_freq == 0 and dist.get_rank() == 0
ShouldSave(e, save_freq, r) == PyMod(e, save_freq) = 0 /\ r = 0

\* variant: the checkpoint records the epoch just trained, not the next one
SavedEpochSame(e) == e

\* the 'epoch' entry of a per-epoch checkpoint
SavedEpoch(e) == e + 1

\* the 'epoch' entry of the final checkpoint
FinalEpoch(epochs) == epochs + 1

\* the dictionary handed to torch.save
Checkpoint(e, sd, opt, sch) ==
    [epoch |-> e, state_dict |-> sd, optimizer |-> opt, scheduler |-> sch]

\* torch.save(obj, path): the file is created or replaced
Save(fs, path, obj) ==
    [p \in DOMAIN fs \cup {path} |-> IF p = path THEN obj ELSE fs[p]]

\* os.path.isfile(path)
IsFile(fs, path) == path \in DOMAIN fs

\* one entry of the run's history: the operation, its epoch, and the
\* optimizer and scheduler state it left behind
Event(op, e, steps, sched) ==
    [op |-> op, epoch |-> e, steps |-> steps, sched |-> sched]

\* ------------------------------------------------------------------- Init
ParseOptions ==
    [dataset   : Datasets,
     resume    : {NoPath, MissingPath},
     epochs    : 0 .. MaxEpochs,
     bs        : 1 .. MaxBs,
     val_freq  : Freqs,
     save_freq : Freqs]

Fresh ==
    /\ pc = "construct"
    /\ batch_size = 0
    /\ start_epoch = 0
    /\ it = 0
    /\ epoch = NoEpoch
    /\ state_dict = <<>>
    /\ opt_steps = 0
    /\ last_epoch = 0
    /\ log = <<>>

Init ==
    /\ args \in ParseOptions
    /\ world \in 1 .. MaxWorld
    /\ rank \in 0 .. world - 1
    /\ files = [p \in {} |-> Checkpoint(0, <<>>, 0, 0)]
    /\ Fresh

\* ---------------------------------------------------------------- actions
\* lines 66-106: model, optimizer, scheduler, datasets and loaders.  Any other
\* dataset raises NotImplementedError; the framework's DataLoader raises
\* ValueError when the batch size it is given is not positive.
Construct ==
    /\ pc = "construct"
    /\ IF args.dataset = "davis"
       THEN /\ batch_size' = LoaderBatchSize(args.bs, world)
            /\ pc' = IF batch_size' >= 1 THEN "resume" ELSE "raised"
       ELSE /\ pc' = "raised"
            /\ UNCHANGED batch_size
    /\ UNCHANGED <<args, world, rank, start_epoch, it, epoch, state_dict,
                   opt_steps, last_epoch, files, log>>

\* lines 107-119: --resume
Resume ==
    /\ pc = "resume"
    /\ IF args.resume # NoPath /\ IsFile(files, args.resume)
       THEN LET checkpoint == files[args.resume] IN
            /\ start_epoch' = checkpoint.epoch
            /\ it' = checkpoint.epoch
            /\ state_dict' = checkpoint.state_dict
            /\ opt_steps' = checkpoint.optimizer
            /\ last_epoch' = checkpoint.scheduler
            /\ log' = Append(log, Event("load", checkpoint.epoch,
                                        checkpoint.optimizer, checkpoint.scheduler))
       ELSE /\ start_epoch' = 0
            /\ it' = 0
            /\ UNCHANGED <<state_dict, opt_steps, last_epoch, log>>
    /\ pc' = "loop"
    /\ UNCHANGED <<args, world, rank, batch_size, epoch, files>>

\* line 140: for epoch in range(start_epoch, args.epochs)
ForNext ==
    /\ pc = "loop"
    /\ IF RangeHasNext(it, args.epochs)
       THEN /\ epoch' = it
            /\ it' = it + 1
            /\ pc' = "train"
       ELSE /\ pc' = "final"
            /\ UNCHANGED <<epoch, it>>
    /\ UNCHANGED <<args, world, rank, batch_size, start_epoch, state_dict,
                   opt_steps, last_epoch, files, log>>

\* line 142 and lines 174-259: train()
Train ==
    /\ pc = "train"
    /\ state_dict' = Append(state_dict, epoch)
    /\ opt_steps' = opt_steps + OptimizerSteps(TrainBatches, IterSize)
    /\ log' = Append(log, Event("train", epoch, opt_steps', last_epoch))
    /\ pc' = "val"
    /\ UNCHANGED <<args, world, rank, batch_size, start_epoch, it, epoch,
                   last_epoch, files>>

\* variant: a validation pass that also steps the optimizer
ValidateCallStepping ==
    /\ opt_steps' = opt_steps + 1
    /\ log' = Append(log, Event("validate", epoch, opt_steps', last_epoch))
    /\ UNCHANGED <<state_dict, last_epoch, epoch, it>>

\* lines 262-325: validate() evaluates the model and reports the mean loss
ValidateCall ==
    /\ log' = Append(log, Event("validate", epoch, opt_steps, last_epoch))
    /\ UNCHANGED <<state_dict, opt_steps, last_epoch, epoch, it>>

\* lines 144-146
Validate ==
    /\ pc = "val"
    /\ IF args.val_freq = 0
       THEN /\ pc' = "raised"
            /\ UNCHANGED <<state_dict, opt_steps, last_epoch, epoch, it, log>>
       ELSE /\ pc' = "sched"
            /\ IF ShouldValidate(epoch, args.val_freq)
               THEN ValidateCall
               ELSE UNCHANGED <<state_dict, opt_steps, last_epoch, epoch, it, log>>
    /\ UNCHANGED <<args, world, rank, batch_size, start_epoch, files>>

\* line 148: scheduler.step()
SchedulerStep ==
    /\ pc = "sched"
    /\ last_epoch' = last_epoch + 1
    /\ log' = Append(log, Event("sched", epoch, opt_steps, last_epoch'))
    /\ pc' = "save"
    /\ UNCHANGED <<args, world, rank, batch_size, start_epoch, it, epoch,
                   state_dict, opt_steps, files>>

\* lines 150-160: the per-epoch checkpoint
SaveCheckpoint ==
    /\ pc = "save"
    /\ IF args.save_freq = 0
       THEN /\ pc' = "raised"
            /\ UNCHANGED <<files, log>>
       ELSE /\ pc' = "loop"
            /\ IF ShouldSave(epoch, args.save_freq, rank)
               THEN /\ files' = Save(files, CheckpointName(epoch),
                                     Checkpoint(SavedEpoch(epoch), state_dict,
                                                opt_steps, last_epoch))
                    /\ log' = Append(log, Event("save", epoch, opt_steps, last_epoch))
               ELSE UNCHANGED <<files, log>>
    /\ UNCHANGED <<args, world, rank, batch_size, start_epoch, it, epoch,
                   state_dict, opt_steps, last_epoch>>

\* lines 162-171: the final checkpoint, written by every rank
SaveFinal ==
    /\ pc = "final"
    /\ files' = Save(files, FinalName,
                     Checkpoint(FinalEpoch(args.epochs), state_dict,
                                opt_steps, last_epoch))
    /\ log' = Append(log, Event("final", args.epochs, opt_steps, last_epoch))
    /\ pc' = "done"
    /\ UNCHANGED <<args, world, rank, batch_size, start_epoch, it, epoch,
                   state_dict, opt_steps, last_epoch>>

\* The run is stopped, wherever it is, and the same command is started
\* again with another --resume; the checkpoint directory is kept.
Restart ==
    /\ \E r \in ResumeChoices : args' = [args EXCEPT !.resume = r]
    /\ rank' \in 0 .. world - 1
    /\ pc' = "construct"
    /\ batch_size' = 0
    /\ start_epoch' = 0
    /\ it' = 0
    /\ epoch' = NoEpoch
    /\ state_dict' = <<>>
    /\ opt_steps' = 0
    /\ last_epoch' = 0
    /\ log' = <<>>
    /\ UNCHANGED <<world, files>>

Next ==
    \/ Construct
    \/ Resume
    \/ ForNext
    \/ Train
    \/ Validate
    \/ SchedulerStep
    \/ SaveCheckpoint
    \/ SaveFinal
    \/ Restart

Spec == Init /\ [][Next]_vars

\* ------------------------------------------------------------------ claims
\* the epochs train() was called for in this run, in call order
RECURSIVE TrainedFrom(_)
TrainedFrom(i) ==
    IF i > Len(log) THEN <<>>
    ELSE IF log[i].op = "train" THEN <<log[i].epoch>> \o TrainedFrom(i + 1)
    ELSE TrainedFrom(i + 1)

Trained == TrainedFrom(1)

\* <<first, first + 1, ..., first + n - 1>>
Consecutive(first, n) == [i \in 1 .. n |-> first + i - 1]

Is(i, op, e) == i >= 1 /\ i <= Len(log) /\ log[i].op = op /\ log[i].epoch = e

ResumedFrom(e) ==
    /\ args.resume = CheckpointName(e)
    /\ Len(log) >= 1
    /\ log[1].op = "load"

\* C2: a per-epoch checkpoint of epoch e on disk holds a model trained on the
\* epochs 0..e; a run resumed from it with the same --epochs starts at epoch
\* e+1 and trains e+1, e+2, ... in order, so its model has seen 0..e followed
\* by its own epochs, each once, and at termination exactly 0..epochs-1.
C2_ResumeContinuesAfterSavedEpoch ==
    /\ \A e \in 0 .. MaxEpochs :
          IsFile(files, CheckpointName(e)) =>
              /\ e < args.epochs
              /\ files[CheckpointName(e)].state_dict = Consecutive(0, e + 1)
    /\ \A e \in 0 .. MaxEpochs :
          ResumedFrom(e) =>
              /\ start_epoch = e + 1
              /\ Trained = Consecutive(e + 1, Len(Trained))
              /\ state_dict = Consecutive(0, e + 1) \o Trained
              /\ pc \in {"final", "done"} =>
                    /\ Len(Trained) = args.epochs - (e + 1)
                    /\ state_dict = Consecutive(0, args.epochs)

C2_Witness ==
    /\ ResumedFrom(0)
    /\ pc = "done"
    /\ args.epochs = MaxEpochs
    /\ Trained = Consecutive(1, MaxEpochs - 1)

\* the loop body of the sched event at index i has run to its end
BodyCompleted(i) == i < Len(log) \/ pc \notin {"save", "raised"}

\* C3: in every loop iteration that runs to its end, the per-epoch checkpoint of
\* epoch e is written (by the rank-0 process of the run, and by no other) if and
\* only if e % save_freq == 0; it is written directly after scheduler.step() of
\* epoch e, which follows validate of e when one is due and train of e, and the
\* file holds the state left by these: the model trained up to e, the optimizer
\* as train left it and the scheduler as its step left it.
C3_CheckpointEverySaveFreqAfterEpoch ==
    \A i \in 1 .. Len(log) :
        LET e == log[i].epoch IN
        /\ (log[i].op = "sched" /\ BodyCompleted(i)) =>
              (Is(i + 1, "save", e) <=> (rank = 0 /\ PyMod(e, args.save_freq) = 0))
        /\ log[i].op = "save" =>
              /\ rank = 0
              /\ PyMod(e, args.save_freq) = 0
              /\ Is(i - 1, "sched", e)
              /\ \/ Is(i - 2, "train", e) /\ PyMod(e, args.val_freq) # 0
                 \/ Is(i - 2, "validate", e) /\ Is(i - 3, "train", e)
              /\ \A j \in 1 .. Len(log) : (log[j].op = "train" /\ j > i) => log[j].epoch > e
              /\ IsFile(files, CheckpointName(e))
              /\ files[CheckpointName(e)] =
                    Checkpoint(e + 1, Consecutive(0, e + 1), log[i - 1].steps,
                               log[i - 1].sched)
              /\ log[i - 1].sched = e + 1

C3_Witness ==
    /\ rank = 0
    /\ args.save_freq = 2
    /\ args.resume = NoPath
    /\ \E i \in 1 .. Len(log) : Is(i, "sched", 1) /\ Is(i + 1, "train", 2)
    /\ \E i \in 1 .. Len(log) : Is(i, "sched", 2) /\ Is(i + 1, "save", 2)

\* C4: validate is called for epoch e if and only if e % val_freq == 0, directly
\* after train of epoch e has returned and directly before scheduler.step() of
\* that epoch; it leaves the optimizer, the scheduler and the epoch as train
\* left them.
C4_ValidateEveryValFreqBetweenTrainAndStep ==
    /\ \A i \in 1 .. Len(log) :
          LET e == log[i].epoch IN
          /\ log[i].op = "sched" =>
                IF PyMod(e, args.val_freq) = 0
                THEN Is(i - 1, "validate", e) /\ Is(i - 2, "train", e)
                ELSE Is(i - 1, "train", e)
          /\ log[i].op = "validate" =>
                /\ PyMod(e, args.val_freq) = 0
                /\ Is(i - 1, "train", e)
                /\ log[i].steps = log[i - 1].steps
                /\ log[i].sched = log[i - 1].sched
                /\ i < Len(log) => Is(i + 1, "sched", e)
                /\ i = Len(log) => (pc = "sched" /\ epoch = e
                                    /\ opt_steps = log[i].steps
                                    /\ last_epoch = log[i].sched)
    /\ pc = "sched" =>
          (Is(Len(log), "validate", epoch) <=> PyMod(epoch, args.val_freq) = 0)

C4_Witness ==
    /\ args.val_freq = 2
    /\ \E i \in 1 .. Len(log) :
          /\ Is(i, "train", 0) /\ Is(i + 1, "validate", 0) /\ Is(i + 2, "sched", 0)
          /\ log[i].steps > 0
    /\ \E i \in 1 .. Len(log) : Is(i, "train", 1) /\ Is(i + 1, "sched", 1)

\* this process has computed the batch size of its loaders (lines 87 and 99)
BatchSizeComputed == args.dataset = "davis" /\ pc # "construct"

\* the loader batch size of every process of the run: each executes the same
\* expression on the same command line and world size
PerProcessBatchSizes == [r \in 0 .. world - 1 |-> LoaderBatchSize(args.bs, world)]

RECURSIVE SumTo(_, _)
SumTo(f, n) == IF n < 0 THEN 0 ELSE f[n] + SumTo(f, n - 1)

TotalBatchSize == SumTo(PerProcessBatchSizes, world - 1)

\* C5 as stated: the per-process loader batch sizes are all at least 1 and sum
\* to exactly bs, for every world size and every bs >= 1.
C5_AsStated ==
    BatchSizeComputed =>
        /\ batch_size = PerProcessBatchSizes[rank]
        /\ \A r \in 0 .. world - 1 : PerProcessBatchSizes[r] >= 1
        /\ TotalBatchSize = args.bs

\* C5 amended: every process uses the batch size floor(bs / W); the sizes sum to
\* bs - (bs mod W), which is at most bs, misses bs by less than W and equals bs
\* exactly when W divides bs; they are at least 1 exactly when bs >= W.
C5_BatchSizeIsFloorShare ==
    BatchSizeComputed =>
        /\ batch_size = PerProcessBatchSizes[rank]
        /\ \A r \in 0 .. world - 1 :
              /\ PerProcessBatchSizes[r] * world <= args.bs
              /\ args.bs < (PerProcessBatchSizes[r] + 1) * world
              /\ PerProcessBatchSizes[r] >= 1 <=> args.bs >= world
        /\ TotalBatchSize = args.bs - (args.bs % world)
        /\ TotalBatchSize = args.bs <=> args.bs % world = 0

C5_Witness ==
    /\ BatchSizeComputed
    /\ world = 2
    /\ args.bs = 3
    /\ batch_size = 1
    /\ TotalBatchSize = 2

====
